---- MODULE Spec2Model ----
(***************************************************************************)
(* A model of get_stat_repo.py: the report driver (get_stat_repo), the     *)
(* paginated fetcher (get_data), the three aggregators (get_top_authors,   *)
(* get_count, get_count_old), the date parser and the error log.           *)
(*                                                                         *)
(* Representation of Python values                                         *)
(*   - a timestamp string "YYYY-MM-DDTHH:MM:SSZ" is the tuple of its six   *)
(*     numeric fields <<Y, M, D, h, m, s>>; a string that strptime rejects *)
(*     is a tuple whose fields are out of range;                           *)
(*   - a datetime is <<ordinal day, second of the day>> (datetime's own    *)
(*     proleptic Gregorian ordinal), compared lexicographically;           *)
(*   - a JSON row is a record of the fields the program reads; an absent   *)
(*     key is Absent / NoDate, a JSON null is Null; a row of type "str"    *)
(*     is what iterating a dict (an API error object) yields: its keys;    *)
(*   - an exception is the name of its class, "none" when nothing raised.  *)
(***************************************************************************)
EXTENDS Integers, Sequences, FiniteSets, TLC

\* ------------------------------------------------------------------------
\* Bounds of the model
\* ------------------------------------------------------------------------
\* Records the server holds for one resource kind, over all its pages.
MaxRecords == 2
\* Pages the server splits one resource kind into.
MaxPages == 3
\* Length of an aggregator's input when the aggregators are checked alone.
MaxLen == 3

\* ------------------------------------------------------------------------
\* datetime
\* ------------------------------------------------------------------------
IsLeap(y) == (y % 4 = 0) /\ ((y % 100 # 0) \/ (y % 400 = 0))

DaysInMonth(y, m) ==
    IF m = 2 THEN (IF IsLeap(y) THEN 29 ELSE 28)
    ELSE IF m \in {4, 6, 9, 11} THEN 30 ELSE 31

RECURSIVE DaysBeforeMonth(_, _)
DaysBeforeMonth(y, m) ==
    IF m <= 1 THEN 0 ELSE DaysBeforeMonth(y, m - 1) + DaysInMonth(y, m - 1)

DaysBeforeYear(y) ==
    (y - 1) * 365 + ((y - 1) \div 4) - ((y - 1) \div 100) + ((y - 1) \div 400)

\* strptime(date_string, "%Y-%m-%dT%H:%M:%SZ") accepts the string.
MatchesFormat(s) ==
    /\ Len(s) = 6
    /\ s[1] \in 1..9999
    /\ s[2] \in 1..12
    /\ s[3] \in 1..DaysInMonth(s[1], s[2])
    /\ s[4] \in 0..23
    /\ s[5] \in 0..59
    /\ s[6] \in 0..59

\* The datetime of a string that matches the format.
convert_string_to_iso_date(s) ==
    << DaysBeforeYear(s[1]) + DaysBeforeMonth(s[1], s[2]) + s[3],
       s[4] * 3600 + s[5] * 60 + s[6] >>

\* datetime.__le__
Le(a, b) == (a[1] < b[1]) \/ (a[1] = b[1] /\ a[2] <= b[2])

\* datetime - timedelta(days=d)
MinusDays(t, d) == << t[1] - d, t[2] >>

\* ------------------------------------------------------------------------
\* JSON values
\* ------------------------------------------------------------------------
Absent == "<absent>"
Null == "<null>"
NoDate == << >>

CommitRow(date, login) ==
    [t |-> "dict", key |-> "", date |-> date, login |-> login,
     created_at |-> NoDate, state |-> Absent]

IssueRow(created, state) ==
    [t |-> "dict", key |-> "", date |-> NoDate, login |-> Absent,
     created_at |-> created, state |-> state]

StrRow(k) ==
    [t |-> "str", key |-> k, date |-> NoDate, login |-> Absent,
     created_at |-> NoDate, state |-> Absent]

\* A JSON array of rows.
List(items) == [t |-> "list", items |-> items, message |-> ""]

\* The API's error object {"message": msg, "documentation_url": ...};
\* items are what `for row in data` yields for a dict: its keys.
ErrorObject(msg) ==
    [t |-> "dict",
     items |-> << StrRow("message"), StrRow("documentation_url") >>,
     message |-> msg]

\* for row in data
Iter(d) == d.items

\* ------------------------------------------------------------------------
\* error.log
\* ------------------------------------------------------------------------
\* One open-and-write of error.log: the mode it is opened in, the code
\* place that writes, and what a fetch failure writes (URL and status).
LogOp(mode, src) == [mode |-> mode, src |-> src, url |-> << >>, status |-> 0]

\* An open of error.log that truncates it.
WriteLogMode_Truncating == "w"
\* The mode write_log opens error.log in.
WriteLogMode == "a"

write_log(src) == LogOp(WriteLogMode, src)

\* A fetch-failure entry that leaves the status code out.
write_log_fetch_NoStatus(u, status) ==
    [mode |-> WriteLogMode, src |-> "get_data", url |-> u, status |-> 0]

write_log_fetch(u, status) ==
    [mode |-> WriteLogMode, src |-> "get_data", url |-> u, status |-> status]

RECURSIVE ApplyLog(_, _)
\* The content of error.log after the opens-and-writes ops, in order.
ApplyLog(file, ops) ==
    IF ops = << >> THEN file
    ELSE ApplyLog(IF Head(ops).mode = "a" THEN Append(file, Head(ops))
                  ELSE << Head(ops) >>,
                  Tail(ops))

Truncations(ops) == Cardinality({i \in 1..Len(ops) : ops[i].mode = "w"})

\* ------------------------------------------------------------------------
\* Return values and printed lines
\* ------------------------------------------------------------------------
RetNone == [t |-> "None", n |-> 0, open |-> 0, closed |-> 0, rows |-> << >>]
RetInt(n) == [t |-> "int", n |-> n, open |-> 0, closed |-> 0, rows |-> << >>]
RetCount(o, c) == [t |-> "dict", n |-> 0, open |-> o, closed |-> c, rows |-> << >>]

Line(text) == [text |-> text, login |-> "", n |-> 0]
TableRow(login, n) == [text |-> "row", login |-> login, n |-> n]

\* What a call did: the exception it raised, the value it returned, the
\* lines it printed, its opens-and-writes of error.log.
Result(exc, ret, out, log) == [exc |-> exc, ret |-> ret, out |-> out, log |-> log]

\* ------------------------------------------------------------------------
\* The time-window filter of get_top_authors and get_count
\* ------------------------------------------------------------------------
DateField(row, f) == IF f = "date" THEN row.date ELSE row.created_at

\* The exception that reading and parsing a row's timestamp raises.
RowDateExc(row, f) ==
    IF row.t = "str" THEN "TypeError"
    ELSE IF DateField(row, f) = NoDate THEN "KeyError"
    ELSE IF ~MatchesFormat(DateField(row, f)) THEN "ValueError"
    ELSE "none"

\* begin < t < end
InWindow_Exclusive(t, begin, end) == Le(begin, t) /\ Le(t, end) /\ t # begin /\ t # end
\* begin <= t <= end
InWindow(t, begin, end) == Le(begin, t) /\ Le(t, end)

RECURSIVE FilterWindow(_, _, _, _, _, _)
\* [row for row in rows if begin <= convert(row[f]) <= end], from row i on.
FilterWindow(rows, f, begin, end, i, acc) ==
    IF i > Len(rows) THEN [exc |-> "none", rows |-> acc]
    ELSE LET e == RowDateExc(rows[i], f) IN
         IF e # "none" THEN [exc |-> e, rows |-> << >>]
         ELSE LET t == convert_string_to_iso_date(DateField(rows[i], f)) IN
              FilterWindow(rows, f, begin, end, i + 1,
                           IF InWindow(t, begin, end)
                           THEN Append(acc, rows[i]) ELSE acc)

\* ------------------------------------------------------------------------
\* get_top_authors
\* ------------------------------------------------------------------------
\* 'message' in commits, for the list commits
HasMessage(commits) ==
    \E i \in 1..Len(commits) : commits[i].t = "str" /\ commits[i].key = "message"

\* The position of login in the dict's insertion order, 0 when not a key.
KeyIndex(dct, login) ==
    IF \E i \in 1..Len(dct) : dct[i].login = login
    THEN CHOOSE i \in 1..Len(dct) : dct[i].login = login
    ELSE 0

RECURSIVE Tally(_, _, _, _)
\* The loop over commits: dct_authors (its items in insertion order) and
\* the write_log of every commit whose author login cannot be read.
Tally(commits, i, dct, log) ==
    IF i > Len(commits) THEN [dct |-> dct, log |-> log]
    ELSE LET login == commits[i].login IN
         IF login \in {Absent, Null}
         THEN Tally(commits, i + 1, dct, Append(log, write_log("get_top_authors")))
         ELSE LET k == KeyIndex(dct, login) IN
              IF k = 0
              THEN Tally(commits, i + 1, Append(dct, TableRow(login, 1)), log)
              ELSE Tally(commits, i + 1,
                         [dct EXCEPT ![k] = TableRow(login, dct[k].n + 1)], log)

\* The first item of items with the largest count.
FirstMax(items) ==
    CHOOSE i \in 1..Len(items) :
        /\ \A j \in 1..Len(items) : items[j].n <= items[i].n
        /\ \A j \in 1..(i - 1) : items[j].n < items[i].n

Remove(items, i) == SubSeq(items, 1, i - 1) \o SubSeq(items, i + 1, Len(items))

RECURSIVE most_common(_, _)
\* Counter.most_common(n): the n items of largest count, by descending
\* count, items of equal count in insertion order.
most_common(items, n) ==
    IF n <= 0 \/ items = << >> THEN << >>
    ELSE LET i == FirstMax(items) IN
         << items[i] >> \o most_common(Remove(items, i), n - 1)

get_top_authors(data, begin, end, top_count) ==
    LET f == FilterWindow(Iter(data), "date", begin, end, 1, << >>) IN
    IF f.exc # "none" THEN Result(f.exc, RetNone, << >>, << >>)
    ELSE IF ~HasMessage(f.rows)
    THEN LET r == Tally(f.rows, 1, << >>, << >>) IN
         Result("none", RetNone,
                << Line("Login|Commits"), Line("______") >>
                    \o most_common(r.dct, top_count),
                r.log)
    \* commits is a list: commits['message'] raises before either branch
    \* of lines 107-112 compares or logs anything.
    ELSE Result("TypeError", RetNone, << >>, << >>)

\* ------------------------------------------------------------------------
\* get_count
\* ------------------------------------------------------------------------
RECURSIVE CountLoop(_, _, _, _, _)
\* The loop over the filtered rows: the two counts and, for every row whose
\* state cannot be read, an open of error.log in mode 'w'.
CountLoop(rows, i, o, c, log) ==
    IF i > Len(rows) THEN Result("none", RetCount(o, c), << >>, log)
    ELSE IF rows[i].state = Absent
    THEN CountLoop(rows, i + 1, o, c, Append(log, LogOp("w", "get_count")))
    ELSE IF rows[i].state = "open" THEN CountLoop(rows, i + 1, o + 1, c, log)
    ELSE IF rows[i].state = "closed" THEN CountLoop(rows, i + 1, o, c + 1, log)
    ELSE CountLoop(rows, i + 1, o, c, log)

get_count(raw_data, begin, end) ==
    LET f == FilterWindow(Iter(raw_data), "created_at", begin, end, 1, << >>) IN
    IF f.exc # "none" THEN Result(f.exc, RetNone, << >>, << >>)
    ELSE CountLoop(f.rows, 1, 0, 0, << >>)

\* ------------------------------------------------------------------------
\* get_count_old
\* ------------------------------------------------------------------------
\* created < now - timedelta(days=days)
IsOld_Strict(created, now, days) ==
    Le(created, MinusDays(now, days)) /\ created # MinusDays(now, days)
\* created <= now - timedelta(days=days)
IsOld(created, now, days) == Le(created, MinusDays(now, days))

RECURSIVE OldLoop(_, _, _, _, _)
\* The loop over data inside the try: the count, or the exception that
\* ends the loop.
OldLoop(rows, i, now, days, n) ==
    IF i > Len(rows) THEN [exc |-> "none", n |-> n]
    ELSE LET e == RowDateExc(rows[i], "created_at") IN
         IF e # "none" THEN [exc |-> e, n |-> n]
         ELSE IF IsOld(convert_string_to_iso_date(rows[i].created_at), now, days)
         THEN (IF rows[i].state = Absent THEN [exc |-> "KeyError", n |-> n]
               ELSE IF rows[i].state = "open"
               THEN OldLoop(rows, i + 1, now, days, n + 1)
               ELSE OldLoop(rows, i + 1, now, days, n))
         ELSE OldLoop(rows, i + 1, now, days, n)

\* now is datetime.datetime.now() as read at line 132.
get_count_old(data, days_to_old, now) ==
    LET r == OldLoop(Iter(data), 1, now, days_to_old, 0) IN
    IF r.exc # "none"
    THEN Result("none", RetNone, << >>, << write_log("get_count_old") >>)
    ELSE Result("none", RetInt(r.n), << >>, << >>)

\* ------------------------------------------------------------------------
\* Inputs: the command line, the wall clock, the rows the server holds
\* ------------------------------------------------------------------------
D_May31 == << 2020, 5, 31, 12, 0, 0 >>
D_Jun16 == << 2020, 6, 16, 12, 0, 0 >>
D_Jun30 == << 2020, 6, 30, 12, 0, 0 >>
\* Month 13: strptime raises ValueError.
D_Malformed == << 2020, 13, 1, 0, 0, 0 >>
\* The defaults of --date_begin and --date_end.
DateBeginDefault == << 1970, 1, 1, 0, 0, 0 >>
DateEndDefault == << 3000, 12, 31, 23, 59, 59 >>

DateBeginArgs == {D_Jun16, D_Malformed}
DateEndArgs == {D_Jun16, DateEndDefault}

\* A URL is the sequence of its '/'-separated segments.
GoodUrl == << "https:", "", "github.com", "owner", "repo" >>
UrlArgs == {GoodUrl, << "repo" >>}

\* Values datetime.datetime.now() returns.
NowSet == {convert_string_to_iso_date(D_Jun16), convert_string_to_iso_date(D_Jun30)}

\* Rows the server returns in a run.
RunCommitRows ==
    {CommitRow(D_Jun16, "alice"), CommitRow(D_Jun16, Null),
     CommitRow(NoDate, "alice")}
RunIssueRows ==
    {IssueRow(D_May31, "open"), IssueRow(D_Jun16, "closed"),
     IssueRow(D_Jun16, Absent), IssueRow(D_Jun16, "merged")}
RunRows(k) == IF k = "commits" THEN RunCommitRows ELSE RunIssueRows

\* Rows of an aggregator's input when the aggregators are checked alone.
AggCommitRows ==
    {CommitRow(D_Jun16, "alice"), CommitRow(D_Jun16, "bob"),
     CommitRow(D_Jun30, "alice"), CommitRow(D_May31, "carol"),
     CommitRow(D_Jun16, Null), CommitRow(NoDate, "alice"),
     CommitRow(D_Malformed, "bob")}
AggIssueRows ==
    {IssueRow(D_May31, "open"), IssueRow(D_Jun16, "open"),
     IssueRow(D_Jun16, "closed"), IssueRow(D_Jun30, "open"),
     IssueRow(D_Jun16, Absent), IssueRow(D_Jun16, "merged"),
     IssueRow(NoDate, "open"), IssueRow(D_Malformed, "closed")}

AggBegins == {convert_string_to_iso_date(d) : d \in {DateBeginDefault, D_Jun16, D_Jun30}}
AggEnds == {convert_string_to_iso_date(d) : d \in {D_Jun16, D_Jun30}}
AggTopCounts == {1, 2, 30}
AggDays == {0, 14, 30}

SeqsUpTo(S, n) == UNION {[1..k -> S] : k \in 0..n}

\* ------------------------------------------------------------------------
\* State
\* ------------------------------------------------------------------------
VARIABLES
    pc,          \* the statement of get_stat_repo the run is at
    kind,        \* the resource kind being fetched and aggregated
    url,         \* --url
    date_begin,  \* --date_begin, then its datetime (line 39)
    date_end,    \* --date_end, then its datetime (line 40)
    events,      \* the prompt, the requests and the prints, in order
    pages,       \* the responses the current get_data call has received
    data,        \* get_data's data, then the driver's data_<kind>
    errorLog,    \* the content of error.log
    exitCode,    \* the process's exit code, -1 while it runs
    call         \* the aggregator call the driver made last

vars == << pc, kind, url, date_begin, date_end, events, pages, data,
           errorLog, exitCode, call >>

Running == -1

NoCall ==
    [fn |-> "none", data |-> List(<< >>), begin |-> << >>, end |-> << >>,
     days |-> 0, now |-> << >>, top |-> 0,
     r |-> Result("none", RetNone, << >>, << >>)]

Call(fn, d, b, e, days, now, top, r) ==
    [fn |-> fn, data |-> d, begin |-> b, end |-> e, days |-> days,
     now |-> now, top |-> top, r |-> r]

Event(tag, k, days) == [tag |-> tag, kind |-> k, days |-> days]

\* What error.log held before the run.
EarlierLog == << LogOp("a", "earlier run") >>

Init ==
    /\ pc = "start"
    /\ kind = ""
    /\ url \in UrlArgs
    /\ date_begin \in DateBeginArgs
    /\ date_end \in DateEndArgs
    /\ events = << >>
    /\ pages = << >>
    /\ data = List(<< >>)
    /\ errorLog = EarlierLog
    /\ exitCode = Running
    /\ call = NoCall

\* ------------------------------------------------------------------------
\* The top-level handler and sys.exit
\* ------------------------------------------------------------------------
\* sys.exit(1) after the opens-and-writes ops: SystemExit is no Exception,
\* the handler of line 169 lets it through.
Exit1(ops) ==
    /\ errorLog' = ApplyLog(errorLog, ops)
    /\ exitCode' = 1
    /\ pc' = "exit"

\* An Exception that leaves get_stat_repo: lines 169-172.
TopLevelHandler(ops) == Exit1(ops \o << write_log("top_level") >>)

\* ------------------------------------------------------------------------
\* get_stat_repo, lines 38-49
\* ------------------------------------------------------------------------
ApiUrl(u) ==
    << "https:", "", "api.github.com", "repos" >> \o SubSeq(u, Len(u) - 1, Len(u))

ParseArgs ==
    /\ pc = "start"
    /\ IF ~MatchesFormat(date_begin) \/ ~MatchesFormat(date_end)
       THEN /\ TopLevelHandler(<< >>)
            /\ UNCHANGED << date_begin, date_end >>
       ELSE /\ date_begin' = convert_string_to_iso_date(date_begin)
            /\ date_end' = convert_string_to_iso_date(date_end)
            /\ IF Len(url) < 2
               THEN Exit1(<< write_log("get_stat_repo") >>)
               ELSE /\ pc' = "prompt"
                    /\ UNCHANGED << errorLog, exitCode >>
    /\ UNCHANGED << kind, url, events, pages, data, call >>

Prompt ==
    /\ pc = "prompt"
    /\ events' = Append(events, Event("prompt", "", 0))
    /\ pc' = "get"
    /\ kind' = "commits"
    /\ UNCHANGED << url, date_begin, date_end, pages, data, errorLog, exitCode, call >>

\* ------------------------------------------------------------------------
\* The server
\* ------------------------------------------------------------------------
\* The server's answer to a request for page n of a resource kind. link is
\* the page its 'next' link points to, 0 when the response has no such link.
\* A successful response of these endpoints is a JSON array, here of at most
\* room rows; when more is true it may carry a 'next' link.
OkResponses(k, room, more, n) ==
    {[ok |-> TRUE, status |-> 200, json |-> TRUE, body |-> List(rows),
      page |-> n, link |-> l] :
        rows \in SeqsUpTo(RunRows(k), room),
        l \in (IF more THEN {0, n + 1} ELSE {0})}

\* A failed response: the API's error object, or a body that is no JSON
\* (a gateway's error page). Neither carries a Link header.
FailResponses(n) ==
    {[ok |-> FALSE, status |-> 404, json |-> TRUE,
      body |-> ErrorObject("Not Found"), page |-> n, link |-> 0],
     [ok |-> FALSE, status |-> 502, json |-> FALSE,
      body |-> List(<< >>), page |-> n, link |-> 0]}

Responses(k, room, more, n) == OkResponses(k, room, more, n) \cup FailResponses(n)

\* 'next' in res.links.keys()
HasNext(res) == res.link # 0

\* The page that res.links['next']['url'] asks for.
NextLink(res) == res.link

\* ------------------------------------------------------------------------
\* get_data
\* ------------------------------------------------------------------------
\* The statement that follows get_data's return, for each resource kind.
AfterFetch(k) == IF k = "commits" THEN "top_authors" ELSE "count"

\* The URL get_data is called with.
RequestUrl(k) == ApiUrl(url) \o << k >>

\* get_data returns data to the driver when the response it holds has no
\* 'next' link, and requests the next page when it has one.
Returns(res, k) ==
    /\ pc' = IF HasNext(res) THEN "page" ELSE AfterFetch(k)
    /\ events' = IF HasNext(res) THEN events ELSE Append(events, Event("fetched", k, 0))

\* Lines 75-77 and 82-85: the first request of a resource kind.
Fetch ==
    /\ pc = "get"
    /\ \E res \in Responses(kind, MaxRecords, MaxPages > 1, 1) :
        /\ pages' = << res >>
        /\ IF res.ok
           THEN /\ data' = res.body
                /\ Returns(res, kind)
                /\ UNCHANGED << errorLog, exitCode >>
           ELSE /\ Exit1(<< write_log_fetch(RequestUrl(kind), res.status) >>)
                /\ UNCHANGED << data, events >>
    /\ UNCHANGED << kind, url, date_begin, date_end, call >>

\* data = res.json(): the last page alone.
Extend_Replace(d, body) == List(Iter(body))

\* data.extend(res.json()): the items of a list, the keys of a dict.
Extend(d, body) == List(d.items \o Iter(body))

\* Lines 78-81: one turn of the while loop. The response's status is not
\* looked at; res.json() raises on a body that is no JSON.
NextPage ==
    /\ pc = "page"
    /\ \E res \in Responses(kind, MaxRecords - Len(data.items),
                            Len(pages) + 1 < MaxPages,
                            NextLink(pages[Len(pages)])) :
        /\ pages' = Append(pages, res)
        /\ IF ~res.json
           THEN /\ TopLevelHandler(<< >>)
                /\ UNCHANGED << data, events >>
           ELSE /\ data' = Extend(data, res.body)
                /\ Returns(res, kind)
                /\ UNCHANGED << errorLog, exitCode >>
    /\ UNCHANGED << kind, url, date_begin, date_end, call >>

\* ------------------------------------------------------------------------
\* get_stat_repo, lines 51-62
\* ------------------------------------------------------------------------
TopCount == 30
OldPullsDays == 30
OldIssuesDays == 14

\* The two thresholds exchanged.
DaysToOld_Swapped(k) == IF k = "pulls" THEN OldIssuesDays ELSE OldPullsDays
DaysToOld(k) == IF k = "pulls" THEN OldPullsDays ELSE OldIssuesDays

\* The call c of an aggregator returns to the driver, which goes on at
\* nextPc, or the exception it raised reaches the top-level handler.
Called(c, nextPc) ==
    /\ call' = c
    /\ IF c.r.exc # "none"
       THEN TopLevelHandler(c.r.log)
       ELSE /\ errorLog' = ApplyLog(errorLog, c.r.log)
            /\ pc' = nextPc
            /\ UNCHANGED exitCode
    /\ UNCHANGED << kind, url, date_begin, date_end, events, pages, data >>

\* The driver prints the value the call returned and goes on at nextPc
\* with resource kind nextKind. The driver reads neither the call's result
\* nor, unless keep, the Result Set again: the model drops them here.
Printed(tag, nextPc, nextKind, keep, code) ==
    /\ events' = Append(events, Event(tag, kind, call.days))
    /\ pc' = nextPc
    /\ kind' = nextKind
    /\ data' = IF keep THEN data ELSE List(<< >>)
    /\ pages' = IF keep THEN pages ELSE << >>
    /\ call' = NoCall
    /\ exitCode' = code
    /\ UNCHANGED << url, date_begin, date_end, errorLog >>

\* Line 52: the call.
TopAuthors ==
    /\ pc = "top_authors"
    /\ Called(Call("get_top_authors", data, date_begin, date_end, 0, << >>, TopCount,
                   get_top_authors(data, date_begin, date_end, TopCount)),
              "print_top_authors")

\* Line 52: the print of the returned value.
PrintTopAuthors ==
    /\ pc = "print_top_authors"
    /\ Printed("print_top_authors", "get", "pulls", FALSE, Running)

\* Lines 54 and 59.
Count ==
    /\ pc = "count"
    /\ Called(Call("get_count", data, date_begin, date_end, 0, << >>, 0,
                   get_count(data, date_begin, date_end)),
              "print_count")

\* Lines 55-56 and 60-61.
PrintCount ==
    /\ pc = "print_count"
    /\ Printed("print_count", "old", kind, TRUE, Running)

\* Lines 57 and 62: the call.
CountOld ==
    /\ pc = "old"
    /\ \E now \in NowSet :
        Called(Call("get_count_old", data, << >>, << >>, DaysToOld(kind), now, 0,
                    get_count_old(data, DaysToOld(kind), now)),
               "print_old")

\* Lines 57 and 62: the print; after line 62 get_stat_repo returns and the
\* process ends with exit code 0.
PrintOld ==
    /\ pc = "print_old"
    /\ IF kind = "pulls"
       THEN Printed("print_old", "get", "issues", FALSE, Running)
       ELSE Printed("print_old", "done", kind, FALSE, 0)

Next ==
    \/ ParseArgs \/ Prompt \/ Fetch \/ NextPage
    \/ TopAuthors \/ PrintTopAuthors \/ Count \/ PrintCount \/ CountOld \/ PrintOld

Spec == Init /\ [][Next]_vars

\* ------------------------------------------------------------------------
\* The aggregators alone: each is applied once to an input drawn from the
\* bounded sets above.
\* ------------------------------------------------------------------------
AggInputs(k) ==
    IF k = "commits"
    THEN {List(rows) : rows \in SeqsUpTo(AggCommitRows, MaxLen)}
            \cup {ErrorObject("Not Found"), ErrorObject("Bad credentials")}
    ELSE {List(rows) : rows \in SeqsUpTo(AggIssueRows, MaxLen)}

InitAgg ==
    /\ pc = "apply"
    /\ kind \in {"commits", "issues"}
    /\ data \in AggInputs(kind)
    /\ url = GoodUrl
    /\ date_begin = << >>
    /\ date_end = << >>
    /\ events = << >>
    /\ pages = << >>
    /\ errorLog = EarlierLog
    /\ exitCode = Running
    /\ call = NoCall

Applied(c) ==
    /\ call' = c
    /\ errorLog' = ApplyLog(errorLog, c.r.log)
    /\ pc' = "applied"
    /\ UNCHANGED << kind, url, date_begin, date_end, events, pages, data, exitCode >>

ApplyTopAuthors ==
    /\ pc = "apply"
    /\ kind = "commits"
    /\ \E b \in AggBegins, e \in AggEnds, n \in AggTopCounts :
        Applied(Call("get_top_authors", data, b, e, 0, << >>, n,
                     get_top_authors(data, b, e, n)))

ApplyCount ==
    /\ pc = "apply"
    /\ kind = "issues"
    /\ \E b \in AggBegins, e \in AggEnds :
        Applied(Call("get_count", data, b, e, 0, << >>, 0, get_count(data, b, e)))

ApplyCountOld ==
    /\ pc = "apply"
    /\ kind = "issues"
    /\ \E now \in NowSet, d \in AggDays :
        Applied(Call("get_count_old", data, << >>, << >>, d, now, 0,
                     get_count_old(data, d, now)))

NextAgg == ApplyTopAuthors \/ ApplyCount \/ ApplyCountOld

SpecAgg == InitAgg /\ [][NextAgg]_vars

\* ========================================================================
\* Properties
\* ========================================================================
\* The reading of the time stamps the properties use: two strings of the
\* fixed format are in chronological order exactly when their fields are
\* in lexicographic order.
RECURSIVE LexLe(_, _, _)
LexLe(a, b, i) ==
    IF i > 6 THEN TRUE
    ELSE IF a[i] < b[i] THEN TRUE
    ELSE IF a[i] > b[i] THEN FALSE
    ELSE LexLe(a, b, i + 1)

StrLe(a, b) == LexLe(a, b, 1)

DateSamples == {D_May31, D_Jun16, D_Jun30, DateBeginDefault, DateEndDefault}

\* The string of the fixed format that a datetime of the model stands for.
StringOf(t) == CHOOSE s \in DateSamples : convert_string_to_iso_date(s) = t

\* The calendar's answer to now - days, for the clock readings and the
\* thresholds of the model.
CutoffString(now, days) ==
    IF StringOf(now) = D_Jun30
    THEN (IF days = 0 THEN D_Jun30
          ELSE IF days = 14 THEN D_Jun16
          ELSE << 2020, 5, 31, 12, 0, 0 >>)
    ELSE (IF days = 0 THEN D_Jun16
          ELSE IF days = 14 THEN << 2020, 6, 2, 12, 0, 0 >>
          ELSE << 2020, 5, 17, 12, 0, 0 >>)

\* The rows of the call's input, and those inside the call's time window.
RowsOf(c) == c.data.items
Indices(c) == 1..Len(RowsOf(c))
InWindowOf(c, d) == StrLe(StringOf(c.begin), d) /\ StrLe(d, StringOf(c.end))
CommitsInWindow(c) == {i \in Indices(c) : InWindowOf(c, RowsOf(c)[i].date)}
CreatedInWindow(c) == {i \in Indices(c) : InWindowOf(c, RowsOf(c)[i].created_at)}

\* The rows the call printed as table rows.
TableOf(out) == SelectSeq(out, LAMBDA l : l.text = "row")

AllDicts(d) == d.t = "list" /\ \A i \in 1..Len(d.items) : d.items[i].t = "dict"

AllOk == \A i \in 1..Len(pages) : pages[i].ok

\* ------------------------------------------------------------------------
\* C1. When the first response of a resource kind is a failure, get_data
\* appends the requested URL and the status code to error.log, the process
\* ends with exit code 1, and nothing runs after it: no further request,
\* no aggregation, no print for that kind.
C1_InitialFailureAborts ==
    (Len(pages) >= 1 /\ ~pages[1].ok) =>
        /\ Len(pages) = 1
        /\ pc = "exit"
        /\ exitCode = 1
        /\ Len(errorLog) >= 2
        /\ errorLog[Len(errorLog)] =
               [mode |-> "a", src |-> "get_data", url |-> RequestUrl(kind),
                status |-> pages[1].status]
        /\ call = NoCall
        /\ \A i \in 1..Len(events) : events[i].kind # kind
        /\ ~ENABLED Next

C1_Witness ==
    /\ kind = "pulls"
    /\ Len(pages) = 1
    /\ ~pages[1].ok
    /\ pages[1].status = 404
    /\ exitCode = 1
    /\ errorLog[Len(errorLog)].status = 404

\* ------------------------------------------------------------------------
\* C2. While every page responds successfully, get_data's data is the
\* concatenation of the pages received, in the order received; the i-th
\* request is for page i, every page but the last received has a 'next'
\* link, and get_data returns exactly when the page it holds has none.
PageSize(i) == Len(pages[i].body.items)

RECURSIVE Offset(_)
\* The number of rows in the pages before page i.
Offset(i) == IF i <= 1 THEN 0 ELSE Offset(i - 1) + PageSize(i - 1)

C2_ConcatenatesPages ==
    (pc \in {"page", "top_authors", "count"} /\ AllOk) =>
        /\ data.t = "list"
        /\ Len(data.items) = Offset(Len(pages) + 1)
        /\ \A i \in 1..Len(pages) : \A j \in 1..PageSize(i) :
               data.items[Offset(i) + j] = pages[i].body.items[j]
        /\ \A i \in 1..Len(pages) : pages[i].page = i
        /\ \A i \in 1..(Len(pages) - 1) : HasNext(pages[i])
        /\ (pc = "page") <=> HasNext(pages[Len(pages)])

C2_Witness ==
    /\ pc = "top_authors"
    /\ AllOk
    /\ Len(pages) = 3
    /\ PageSize(1) = 1 /\ PageSize(2) = 0 /\ PageSize(3) = 1
    /\ pages[1].body.items[1] # pages[3].body.items[1]
    /\ data.items = << pages[1].body.items[1], pages[3].body.items[1] >>

\* ------------------------------------------------------------------------
\* C3. If any response of a fetch, the first or a follow-up, is a failure,
\* no Result Set reaches the driver: the run has ended with exit code 1 and
\* no aggregator has run on the data.
C3_AnyFailureAborts ==
    (\E i \in 1..Len(pages) : ~pages[i].ok) =>
        /\ pc = "exit"
        /\ exitCode = 1
        /\ call = NoCall

\* ------------------------------------------------------------------------
\* C4. The driver's events are an initial part of the fixed order: prompt,
\* commits fetched, top authors printed, pulls fetched, pull counts printed,
\* old pulls (30 days) printed, issues fetched, issue counts printed, old
\* issues (14 days) printed; a run that reaches the end has them all. No
\* request is made before the prompt, and an aggregator is called only with
\* the data of a fetch of its kind whose pagination is finished.
FixedOrder ==
    << Event("prompt", "", 0),
       Event("fetched", "commits", 0), Event("print_top_authors", "commits", 0),
       Event("fetched", "pulls", 0), Event("print_count", "pulls", 0),
       Event("print_old", "pulls", 30),
       Event("fetched", "issues", 0), Event("print_count", "issues", 0),
       Event("print_old", "issues", 14) >>

C4_FixedOrder ==
    /\ Len(events) <= Len(FixedOrder)
    /\ events = SubSeq(FixedOrder, 1, Len(events))
    /\ (pages # << >>) => (Len(events) >= 1 /\ events[1].tag = "prompt")
    /\ (pc = "done") => (events = FixedOrder /\ exitCode = 0)
    /\ (call.fn # "none") =>
           /\ pages # << >>
           /\ ~HasNext(pages[Len(pages)])
           /\ call.data = data
           /\ \E i \in 1..Len(events) : events[i] = Event("fetched", kind, 0)
           /\ (call.fn = "get_top_authors") <=> (kind = "commits")

C4_Witness ==
    /\ pc = "done"
    /\ events = FixedOrder
    /\ exitCode = 0

\* ------------------------------------------------------------------------
\* C5. A record is counted by get_top_authors or by get_count only if
\* begin <= its time stamp <= end, both bounds included: every count is the
\* number of records inside the window (those at begin and at end among
\* them) with that author login, or with that state; so open + closed is
\* at most the number of records inside the window.
C5_WindowInclusive ==
    /\ (call.fn = "get_top_authors" /\ call.r.exc = "none") =>
           LET table == TableOf(call.r.out) IN
           /\ \A k \in 1..Len(table) :
                  table[k].n = Cardinality({i \in CommitsInWindow(call) :
                                                RowsOf(call)[i].login = table[k].login})
           /\ \A i \in CommitsInWindow(call) :
                  (RowsOf(call)[i].login \notin {Absent, Null} /\ Len(table) < call.top)
                      => \E k \in 1..Len(table) : table[k].login = RowsOf(call)[i].login
    /\ (call.fn = "get_count" /\ call.r.exc = "none") =>
           /\ call.r.ret.open =
                  Cardinality({i \in CreatedInWindow(call) : RowsOf(call)[i].state = "open"})
           /\ call.r.ret.closed =
                  Cardinality({i \in CreatedInWindow(call) : RowsOf(call)[i].state = "closed"})
           /\ call.r.ret.open + call.r.ret.closed <= Cardinality(CreatedInWindow(call))

\* A record before begin, one at begin and one at end: the last two count.
C5_Witness ==
    /\ call.fn = "get_count"
    /\ StringOf(call.begin) = D_Jun16
    /\ StringOf(call.end) = D_Jun30
    /\ RowsOf(call) = << IssueRow(D_May31, "open"), IssueRow(D_Jun16, "open"),
                         IssueRow(D_Jun30, "open") >>
    /\ call.r.ret.open = 2

\* ------------------------------------------------------------------------
\* C6. For well-formed commit records, get_top_authors returns the list of
\* at most top_count (login, count) pairs: each count is the number of
\* commits inside the window with that login, counts do not increase along
\* the list, and no author left out has a larger count than one listed.
WellFormedCommits(c) ==
    /\ AllDicts(c.data)
    /\ \A i \in Indices(c) :
           MatchesFormat(RowsOf(c)[i].date) /\ RowsOf(c)[i].login \notin {Absent, Null}

\* The number of commits inside the call's window whose author is login.
CommitsBy(c, login) ==
    Cardinality({i \in CommitsInWindow(c) : RowsOf(c)[i].login = login})

AuthorsInWindow(c) == {RowsOf(c)[i].login : i \in CommitsInWindow(c)}

\* rows is the top of the ranking of the call's commits.
IsTopAuthors(c, rows) ==
    /\ Len(rows) <= c.top
    /\ Len(rows) = IF Cardinality(AuthorsInWindow(c)) < c.top
                   THEN Cardinality(AuthorsInWindow(c)) ELSE c.top
    /\ \A k \in 1..Len(rows) :
           rows[k].login \in AuthorsInWindow(c) /\ rows[k].n = CommitsBy(c, rows[k].login)
    /\ \A k, l \in 1..Len(rows) :
           (k < l) => (rows[k].n >= rows[l].n /\ rows[k].login # rows[l].login)
    /\ \A a \in AuthorsInWindow(c) :
           (\A k \in 1..Len(rows) : rows[k].login # a)
               => \A k \in 1..Len(rows) : CommitsBy(c, a) <= rows[k].n

C6_ReturnsTopAuthors ==
    (call.fn = "get_top_authors" /\ WellFormedCommits(call)) =>
        /\ call.r.exc = "none"
        /\ call.r.ret.t = "list"
        /\ IsTopAuthors(call, call.r.ret.rows)

\* What the code does instead: the ranking is printed, nothing is returned.
PrintsTopAuthors ==
    (call.fn = "get_top_authors" /\ WellFormedCommits(call)) =>
        /\ call.r.exc = "none"
        /\ call.r.ret = RetNone
        /\ IsTopAuthors(call, TableOf(call.r.out))

\* ------------------------------------------------------------------------
\* C7. For well-formed records, get_count_old returns the number of records
\* of its whole input that are open and were created at or before
\* now - days_to_old days, now being the clock reading of the call; no time
\* window enters the count.
WellFormedIssues(c) ==
    /\ AllDicts(c.data)
    /\ \A i \in Indices(c) :
           MatchesFormat(RowsOf(c)[i].created_at) /\ RowsOf(c)[i].state # Absent

LacksTimestamp(c, row) ==
    IF c.fn = "get_top_authors" THEN ~MatchesFormat(row.date)
    ELSE ~MatchesFormat(row.created_at)

LacksValue(c, row) ==
    IF c.fn = "get_top_authors" THEN row.login \in {Absent, Null}
    ELSE row.state = Absent

C8_MalformedRecordSkipped ==
    (call.fn \in {"get_top_authors", "get_count"} /\ AllDicts(call.data)) =>
        /\ call.r.exc = "none"
        /\ exitCode # 1
        /\ (\A i \in Indices(call) : ~LacksTimestamp(call, RowsOf(call)[i])) =>
               Len(call.r.log) =
                   Cardinality({i \in Indices(call) :
                       /\ LacksValue(call, RowsOf(call)[i])
                       /\ InWindowOf(call, DateField(RowsOf(call)[i],
                              IF call.fn = "get_top_authors" THEN "date" ELSE "created_at"))})

\* ------------------------------------------------------------------------
\* C9. Given the API's error object instead of a list, get_top_authors
\* raises nothing: for the message 'Not Found' it prints "Authors not found"
\* and no table, for any other message it writes the message to error.log
\* and prints nothing.
C9_ErrorObjectHandled ==
    (call.fn = "get_top_authors" /\ call.data.t = "dict") =>
        /\ call.r.exc = "none"
        /\ IF call.data.message = "Not Found"
           THEN call.r.out = << Line("Authors not found") >> /\ call.r.log = << >>
           ELSE call.r.out = << >> /\ call.r.log = << write_log("get_top_authors") >>

\* ------------------------------------------------------------------------
\* C10, as stated. Every write to error.log appends, except get_count's
\* write for a record whose state cannot be used, which truncates the file;
\* one get_count call truncates the file at most once, and every record
\* inside the window whose state is absent or neither 'open' nor 'closed'
\* causes that write.
AppendsExceptGetCount ==
    /\ \A i \in 1..Len(errorLog) :
           (errorLog[i].mode = "w") <=> (errorLog[i].src = "get_count")
    /\ \A i \in 1..Len(errorLog) : (errorLog[i].mode = "w") => (i = 1)
    /\ (\A i \in 1..Len(errorLog) : errorLog[i].mode = "a") =>
           SubSeq(errorLog, 1, Len(EarlierLog)) = EarlierLog

C10_TruncatesOnce ==
    /\ AppendsExceptGetCount
    /\ (call.fn = "get_count" /\ call.r.exc = "none") =>
           /\ Truncations(call.r.log) <= 1
           /\ \A i \in CreatedInWindow(call) :
                  (RowsOf(call)[i].state \notin {"open", "closed"})
                      => Truncations(call.r.log) >= 1

\* C10, amended. Every write to error.log appends and keeps what the file
\* held, except get_count's write for a record inside the window whose
\* state field is absent: get_count opens the file in truncate mode once
\* for each such record, so several times in a run with several of them,
\* and makes no other write; a record whose state is present but neither
\* 'open' nor 'closed' is left out of both counts and causes no write.
C10_TruncatesPerRecord ==
    /\ AppendsExceptGetCount
    /\ (call.fn = "get_count" /\ call.r.exc = "none") =>
           /\ Truncations(call.r.log) =
                  Cardinality({i \in CreatedInWindow(call) : RowsOf(call)[i].state = Absent})
           /\ Len(call.r.log) = Truncations(call.r.log)
           /\ (Truncations(call.r.log) >= 1) =>
                  errorLog = << LogOp("w", "get_count") >>

\* Two records without a state inside the window: two truncations.
C10_Witness ==
    /\ call.fn = "get_count"
    /\ call.r.exc = "none"
    /\ kind = "pulls"
    /\ RowsOf(call) = << IssueRow(D_Jun16, Absent), IssueRow(D_Jun16, Absent) >>
    /\ Truncations(call.r.log) = 2
    /\ errorLog = << LogOp("w", "get_count") >>

====
